---- MODULE Spec2Model ----
(***************************************************************************)
(* A model of the paged B+Tree storage engine of simple-db: src/table.c    *)
(* (table lifecycle, cursor, search, leaf insert/split, root promotion,    *)
(* internal-node insert) over the page store and node codec declared in    *)
(* src/c/db.h.  The page store (pager_open, get_page, pager_flush,         *)
(* get_unused_page_num) and the node accessors are only declared in db.h;  *)
(* their bodies are modelled from the specification (sections 3, 4.1, 4.2  *)
(* and 6).                                                                 *)
(***************************************************************************)
EXTENDS Integers, Sequences, FiniteSets, TLC

VARIABLES
    status,     \* "new": before db_open, "open", "fatal": exit(EXIT_FAILURE), "closed"
    pages,      \* pager->pages: page number -> node, for the cached pages only
    num_pages,  \* pager->num_pages
    file,       \* the backing file: sequence of pages written so far (index page+1)
    flushes,    \* number of pager_flush calls per page number (the file writes)
    root_page_num, \* table->root_page_num
    call,       \* a pending call of internal_node_insert(parent, child), or NoCall
    cursor,     \* the Cursor last returned to the caller, or NoCursor
    inserted    \* the keys leaf_node_insert was called with (history)

vars == <<status, pages, num_pages, file, flushes, root_page_num, call, cursor, inserted>>

(***************************************************************************)
(* Bounds of the model.  The program's leaf capacity is                    *)
(* (PAGE_SIZE - 14) / 297 = 13 and its internal capacity is "small"; both  *)
(* are scaled here so that splits, root promotion and the capacity error   *)
(* are all reached with the keys of 0..MaxKey.                             *)
(***************************************************************************)
MaxKey == 9
CursorMaxKey == 5
DupMaxKey == 5
MaxDuplicates == 1
LEAF_NODE_MAX_CELLS == 3
INTERNAL_NODE_MAX_CELLS == 3

TABLE_MAX_PAGES == 100

Keys == 0..MaxKey
CursorKeys == 0..CursorMaxKey
DupKeys == 0..DupMaxKey

LEAF_NODE_RIGHT_SPLIT_COUNT == (LEAF_NODE_MAX_CELLS + 1) \div 2
LEAF_NODE_LEFT_SPLIT_COUNT == (LEAF_NODE_MAX_CELLS + 1) - LEAF_NODE_RIGHT_SPLIT_COUNT

NODE_INTERNAL == 0
NODE_LEAF == 1

NoCall == [parent_page_num |-> 0, child_page_num |-> 0]
NoCursor == [page_num |-> 0, cell_num |-> 0, end_of_table |-> FALSE, valid |-> FALSE]

(***************************************************************************)
(* Node codec.  A page is a record of the header fields and the two cell   *)
(* arrays.  num is the 4-byte field at offset 6 (leaf: cell count,         *)
(* internal: key count) and ref the one at offset 10 (leaf: next leaf,     *)
(* internal: rightmost child); the two node types share them.  A cell slot *)
(* that was never written holds the zero bytes of a fresh page.            *)
(***************************************************************************)
ZeroCell == [key |-> 0, value |-> 0]
ZeroICell == [child |-> 0, key |-> 0]

ZeroPage ==
    [type |-> NODE_INTERNAL, is_root |-> FALSE, parent |-> 0, num |-> 0, ref |-> 0,
     cells |-> [i \in 0..(LEAF_NODE_MAX_CELLS - 1) |-> ZeroCell],
     icells |-> [i \in 0..INTERNAL_NODE_MAX_CELLS |-> ZeroICell]]

get_node_type(node) == node.type
is_node_root(node) == node.is_root
set_node_root(node, is_root) == [node EXCEPT !.is_root = is_root]
node_parent(node) == node.parent
leaf_node_num_cells(node) == node.num
leaf_node_next_leaf(node) == node.ref
leaf_node_cell(node, cell_num) == node.cells[cell_num]
leaf_node_key(node, cell_num) == node.cells[cell_num].key
leaf_node_value(node, cell_num) == node.cells[cell_num].value
internal_node_num_keys(node) == node.num
internal_node_right_child(node) == node.ref
internal_node_cell(node, cell_num) == node.icells[cell_num]
internal_node_key(node, key_num) == node.icells[key_num].key

\* child_num = key count selects the rightmost child
internal_node_child(node, child_num) ==
    IF child_num = internal_node_num_keys(node)
    THEN internal_node_right_child(node)
    ELSE node.icells[child_num].child

initialize_leaf_node(node) ==
    [node EXCEPT !.type = NODE_LEAF, !.is_root = FALSE, !.num = 0, !.ref = 0]

initialize_internal_node(node) ==
    [node EXCEPT !.type = NODE_INTERNAL, !.is_root = FALSE, !.num = 0]

\* The row the statement layer stores under a key: its id field is the key.
RowOf(key) == key + 1

\* Another row with the same id: what a second insert of the key passes.
UpdatedRowOf(key) == 0 - RowOf(key)

(***************************************************************************)
(* Page store.  A pager value p is [pages, num_pages]; the operators       *)
(* return the pager as the call leaves it.                                 *)
(***************************************************************************)
Pager == [pages |-> pages, num_pages |-> num_pages]

\* the cached buffer of page n; a miss loads it from the file when the file
\* has it and else makes a zeroed buffer; a page at or beyond the page count
\* raises the count to n + 1
get_page(p, n) ==
    IF n \in DOMAIN p.pages
    THEN p
    ELSE [pages |-> p.pages @@ (n :> IF n < Len(file) THEN file[n + 1] ELSE ZeroPage),
          num_pages |-> IF n >= p.num_pages THEN n + 1 ELSE p.num_pages]

\* the node a get_page(p, n) call hands back
node_at(p, n) == get_page(p, n).pages[n]

\* get_unused_page_num that hands out the last page in use
get_unused_page_num_last(p) == p.num_pages - 1

get_unused_page_num(p) == p.num_pages

set_page(p, n, node) == [p EXCEPT !.pages[n] = node]

\* leaf: the key of the last cell; internal: the maximum of the rightmost child
RECURSIVE get_node_max_key(_, _)
get_node_max_key(p, node) ==
    IF get_node_type(node) = NODE_LEAF
    THEN leaf_node_key(node, leaf_node_num_cells(node) - 1)
    ELSE get_node_max_key(p, node_at(p, internal_node_right_child(node)))

(***************************************************************************)
(* Search.                                                                 *)
(***************************************************************************)
RECURSIVE leaf_binary_search(_, _, _, _)
leaf_binary_search(node, key, min_index, one_past_max_index) ==
    IF one_past_max_index = min_index
    THEN min_index
    ELSE LET index == (min_index + one_past_max_index) \div 2
             key_at_index == leaf_node_key(node, index)
         IN  IF key = key_at_index
             THEN index
             ELSE IF key < key_at_index
                  THEN leaf_binary_search(node, key, min_index, index)
                  ELSE leaf_binary_search(node, key, index + 1, one_past_max_index)

\* eot is the value the malloc'ed Cursor's end_of_table byte happens to hold:
\* leaf_node_find never assigns it
leaf_node_find(p, page_num, key, eot) ==
    LET node == node_at(p, page_num)
    IN  [page_num |-> page_num,
         cell_num |-> leaf_binary_search(node, key, 0, leaf_node_num_cells(node)),
         end_of_table |-> eot,
         valid |-> TRUE]

RECURSIVE child_binary_search(_, _, _, _)
child_binary_search(node, key, min_index, max_index) ==
    IF min_index = max_index
    THEN min_index
    ELSE LET index == (min_index + max_index) \div 2
             key_to_right == internal_node_key(node, index)
         IN  IF key_to_right >= key
             THEN child_binary_search(node, key, min_index, index)
             ELSE child_binary_search(node, key, index + 1, max_index)

\* internal_node_find_child that searches the keyed children only
internal_node_find_child_keyed_only(node, key) ==
    child_binary_search(node, key, 0, internal_node_num_keys(node) - 1)

internal_node_find_child(node, key) ==
    child_binary_search(node, key, 0, internal_node_num_keys(node))

RECURSIVE internal_node_find(_, _, _, _)
internal_node_find(p, page_num, key, eot) ==
    LET node == node_at(p, page_num)
        child_index == internal_node_find_child(node, key)
        child_num == internal_node_child(node, child_index)
        child == node_at(p, child_num)
    IN  IF get_node_type(child) = NODE_LEAF
        THEN leaf_node_find(p, child_num, key, eot)
        ELSE internal_node_find(p, child_num, key, eot)

table_find(p, key, eot) ==
    LET root_node == node_at(p, root_page_num)
    IN  IF get_node_type(root_node) = NODE_LEAF
        THEN leaf_node_find(p, root_page_num, key, eot)
        ELSE internal_node_find(p, root_page_num, key, eot)

(***************************************************************************)
(* Cursor.                                                                 *)
(***************************************************************************)
\* table_start that does not assign end_of_table
table_start_unset(p, eot) == table_find(p, 0, eot)

table_start(p, eot) ==
    LET c == table_find(p, 0, eot)
        node == node_at(p, c.page_num)
    IN  [c EXCEPT !.end_of_table = (leaf_node_num_cells(node) = 0)]

cursor_value(p, c) == leaf_node_value(node_at(p, c.page_num), c.cell_num)

cursor_key(p, c) == leaf_node_key(node_at(p, c.page_num), c.cell_num)

\* cursor_advance that keeps the cell index when it moves to the next leaf
cursor_advance_keeps_cell(p, c) ==
    LET node == node_at(p, c.page_num)
        cell_num == c.cell_num + 1
    IN  IF cell_num >= leaf_node_num_cells(node)
        THEN IF leaf_node_next_leaf(node) = 0
             THEN [c EXCEPT !.cell_num = cell_num, !.end_of_table = TRUE]
             ELSE [c EXCEPT !.page_num = leaf_node_next_leaf(node), !.cell_num = cell_num]
        ELSE [c EXCEPT !.cell_num = cell_num]

cursor_advance(p, c) ==
    LET node == node_at(p, c.page_num)
        cell_num == c.cell_num + 1
    IN  IF cell_num >= leaf_node_num_cells(node)
        THEN IF leaf_node_next_leaf(node) = 0
             THEN [c EXCEPT !.cell_num = cell_num, !.end_of_table = TRUE]
             ELSE [c EXCEPT !.page_num = leaf_node_next_leaf(node), !.cell_num = 0]
        ELSE [c EXCEPT !.cell_num = cell_num]

(***************************************************************************)
(* Insertion, split and root promotion.                                    *)
(***************************************************************************)
\* create_new_root that copies the old root without clearing its root flag
create_new_root_keeps_root_flag(p, right_child_page_num) ==
    LET root == node_at(p, root_page_num)
        left_child_page_num == get_unused_page_num(p)
        p1 == get_page(p, left_child_page_num)
        left_child == root
        left_child_max_key == get_node_max_key(p1, left_child)
        new_root ==
            [set_node_root(initialize_internal_node(root), TRUE) EXCEPT
                !.num = 1,
                !.icells[0] = [child |-> left_child_page_num, key |-> left_child_max_key],
                !.ref = right_child_page_num]
        p2 == set_page(set_page(p1, left_child_page_num, left_child),
                       root_page_num, new_root)
        p3 == set_page(p2, left_child_page_num,
                       [p2.pages[left_child_page_num] EXCEPT !.parent = root_page_num])
    IN  set_page(p3, right_child_page_num,
                 [p3.pages[right_child_page_num] EXCEPT !.parent = root_page_num])

\* create_new_root that takes the separator from the right child
create_new_root_right_max(p, right_child_page_num) ==
    LET root == node_at(p, root_page_num)
        left_child_page_num == get_unused_page_num(p)
        p1 == get_page(p, left_child_page_num)
        left_child == set_node_root(root, FALSE)
        right_child_max_key == get_node_max_key(p1, node_at(p1, right_child_page_num))
        new_root ==
            [set_node_root(initialize_internal_node(root), TRUE) EXCEPT
                !.num = 1,
                !.icells[0] = [child |-> left_child_page_num, key |-> right_child_max_key],
                !.ref = right_child_page_num]
        p2 == set_page(set_page(p1, left_child_page_num, left_child),
                       root_page_num, new_root)
        p3 == set_page(p2, left_child_page_num,
                       [p2.pages[left_child_page_num] EXCEPT !.parent = root_page_num])
    IN  set_page(p3, right_child_page_num,
                 [p3.pages[right_child_page_num] EXCEPT !.parent = root_page_num])

create_new_root(p, right_child_page_num) ==
    LET root == node_at(p, root_page_num)
        left_child_page_num == get_unused_page_num(p)
        p1 == get_page(p, left_child_page_num)
        left_child == set_node_root(root, FALSE)
        left_child_max_key == get_node_max_key(p1, left_child)
        new_root ==
            [set_node_root(initialize_internal_node(root), TRUE) EXCEPT
                !.num = 1,
                !.icells[0] = [child |-> left_child_page_num, key |-> left_child_max_key],
                !.ref = right_child_page_num]
        p2 == set_page(set_page(p1, left_child_page_num, left_child),
                       root_page_num, new_root)
        p3 == set_page(p2, left_child_page_num,
                       [p2.pages[left_child_page_num] EXCEPT !.parent = root_page_num])
    IN  set_page(p3, right_child_page_num,
                 [p3.pages[right_child_page_num] EXCEPT !.parent = root_page_num])

\* update_internal_node_key that leaves the separator as it was
update_internal_node_key_skipped(node, old_key, new_key) == node

update_internal_node_key(node, old_key, new_key) ==
    LET old_child_index == internal_node_find_child(node, old_key)
    IN  [node EXCEPT !.icells[old_child_index].key = new_key]

\* the shift of leaf_node_insert moving the keys and leaving the rows behind
RECURSIVE leaf_shift_cells_keys_only(_, _, _)
leaf_shift_cells_keys_only(node, i, cell_num) ==
    IF i > cell_num
    THEN leaf_shift_cells_keys_only(
            [node EXCEPT !.cells[i].key = node.cells[i - 1].key], i - 1, cell_num)
    ELSE node

\* for (i = num_cells; i > cell_num; i--) cell[i] = cell[i - 1]
RECURSIVE leaf_shift_cells(_, _, _)
leaf_shift_cells(node, i, cell_num) ==
    IF i > cell_num
    THEN leaf_shift_cells([node EXCEPT !.cells[i] = node.cells[i - 1]], i - 1, cell_num)
    ELSE node

\* the split loop with the left/right boundary one index too high
RECURSIVE split_move_cells_late_boundary(_, _, _, _, _)
split_move_cells_late_boundary(nodes, i, cell_num, key, value) ==
    IF i < 0
    THEN nodes
    ELSE LET to_new == i > LEAF_NODE_LEFT_SPLIT_COUNT
             index_within_node == i % LEAF_NODE_LEFT_SPLIT_COUNT
             cell == IF i = cell_num
                     THEN [key |-> key, value |-> value]
                     ELSE IF i > cell_num
                          THEN leaf_node_cell(nodes.old, i - 1)
                          ELSE leaf_node_cell(nodes.old, i)
             moved == IF to_new
                      THEN [nodes EXCEPT !.new.cells[index_within_node] = cell]
                      ELSE [nodes EXCEPT !.old.cells[index_within_node] = cell]
         IN  split_move_cells_late_boundary(moved, i - 1, cell_num, key, value)

\* the loop of leaf_node_split_and_insert, from virtual index i down to 0;
\* nodes is [old, new], both written in place as the loop goes
RECURSIVE split_move_cells(_, _, _, _, _)
split_move_cells(nodes, i, cell_num, key, value) ==
    IF i < 0
    THEN nodes
    ELSE LET to_new == i >= LEAF_NODE_LEFT_SPLIT_COUNT
             index_within_node == i % LEAF_NODE_LEFT_SPLIT_COUNT
             cell == IF i = cell_num
                     THEN [key |-> key, value |-> value]
                     ELSE IF i > cell_num
                          THEN leaf_node_cell(nodes.old, i - 1)
                          ELSE leaf_node_cell(nodes.old, i)
             moved == IF to_new
                      THEN [nodes EXCEPT !.new.cells[index_within_node] = cell]
                      ELSE [nodes EXCEPT !.old.cells[index_within_node] = cell]
         IN  split_move_cells(moved, i - 1, cell_num, key, value)

\* the result of an insert: the pager it leaves and the call of
\* internal_node_insert it goes on to make (NoCall: it returns)
leaf_node_split_and_insert(p, c, key, value) ==
    LET old_node == node_at(p, c.page_num)
        old_max == get_node_max_key(p, old_node)
        new_page_num == get_unused_page_num(p)
        p1 == get_page(p, new_page_num)
        new_node == [initialize_leaf_node(p1.pages[new_page_num]) EXCEPT
                        !.parent = node_parent(old_node),
                        !.ref = leaf_node_next_leaf(old_node)]
        linked == [old_node EXCEPT !.ref = new_page_num]
        moved == split_move_cells([old |-> linked, new |-> new_node],
                                  LEAF_NODE_MAX_CELLS, c.cell_num, key, value)
        old2 == [moved.old EXCEPT !.num = LEAF_NODE_LEFT_SPLIT_COUNT]
        new2 == [moved.new EXCEPT !.num = LEAF_NODE_RIGHT_SPLIT_COUNT]
        p2 == set_page(set_page(p1, c.page_num, old2), new_page_num, new2)
    IN  IF is_node_root(old2)
        THEN [pager |-> create_new_root(p2, new_page_num), call |-> NoCall,
              calls |-> FALSE]
        ELSE LET parent_page_num == node_parent(old2)
                 new_max == get_node_max_key(p2, old2)
                 parent == node_at(p2, parent_page_num)
             IN  [pager |-> set_page(p2, parent_page_num,
                                     update_internal_node_key(parent, old_max, new_max)),
                  call |-> [parent_page_num |-> parent_page_num,
                            child_page_num |-> new_page_num],
                  calls |-> TRUE]

\* leaf_node_insert that does not make room for the new cell
leaf_node_insert_unshifted(p, c, key, value) ==
    LET node == node_at(p, c.page_num)
        num_cells == leaf_node_num_cells(node)
    IN  IF num_cells >= LEAF_NODE_MAX_CELLS
        THEN leaf_node_split_and_insert(p, c, key, value)
        ELSE [pager |-> set_page(p, c.page_num,
                        [node EXCEPT !.num = num_cells + 1,
                                     !.cells[c.cell_num] =
                                         [key |-> key, value |-> value]]),
              call |-> NoCall, calls |-> FALSE]

leaf_node_insert(p, c, key, value) ==
    LET node == node_at(p, c.page_num)
        num_cells == leaf_node_num_cells(node)
    IN  IF num_cells >= LEAF_NODE_MAX_CELLS
        THEN leaf_node_split_and_insert(p, c, key, value)
        ELSE LET shifted == IF c.cell_num < num_cells
                            THEN leaf_shift_cells(node, num_cells, c.cell_num)
                            ELSE node
             IN  [pager |-> set_page(p, c.page_num,
                        [shifted EXCEPT !.num = num_cells + 1,
                                        !.cells[c.cell_num] =
                                            [key |-> key, value |-> value]]),
                  call |-> NoCall, calls |-> FALSE]

\* the shift of internal_node_insert left out
internal_shift_cells_none(node, i, index) == node

\* for (i = original_num_keys; i > index; i--) cell[i] = cell[i - 1]
RECURSIVE internal_shift_cells(_, _, _)
internal_shift_cells(node, i, index) ==
    IF i > index
    THEN internal_shift_cells([node EXCEPT !.icells[i] = node.icells[i - 1]], i - 1, index)
    ELSE node

\* internal_node_insert with two slips, one per parameter below: keep_right
\* leaves the rightmost-child reference on the old right child; late_check
\* lets a parent holding exactly INTERNAL_NODE_MAX_CELLS keys through
internal_node_insert_slip(p, parent_page_num, child_page_num, keep_right, late_check) ==
    LET parent == node_at(p, parent_page_num)
        child == node_at(p, child_page_num)
        child_max_key == get_node_max_key(p, child)
        index == internal_node_find_child(parent, child_max_key)
        original_num_keys == internal_node_num_keys(parent)
        counted == [parent EXCEPT !.num = original_num_keys + 1]
        full == IF late_check THEN original_num_keys > INTERNAL_NODE_MAX_CELLS
                              ELSE original_num_keys >= INTERNAL_NODE_MAX_CELLS
    IN  IF full
        THEN [pager |-> set_page(p, parent_page_num, counted), fatal |-> TRUE]
        ELSE LET right_child_page_num == internal_node_right_child(counted)
                 right_child == node_at(p, right_child_page_num)
                 right_max == get_node_max_key(p, right_child)
             IN  IF child_max_key > right_max
                 THEN [pager |-> set_page(p, parent_page_num,
                            [counted EXCEPT
                                !.icells[original_num_keys] =
                                    [child |-> right_child_page_num, key |-> right_max],
                                !.ref = IF keep_right THEN right_child_page_num
                                                      ELSE child_page_num]),
                       fatal |-> FALSE]
                 ELSE [pager |-> set_page(p, parent_page_num,
                            [internal_shift_cells(counted, original_num_keys, index) EXCEPT
                                !.icells[index] =
                                    [child |-> child_page_num, key |-> child_max_key]]),
                       fatal |-> FALSE]

internal_node_insert_keeps_right_child(p, parent_page_num, child_page_num) ==
    internal_node_insert_slip(p, parent_page_num, child_page_num, TRUE, FALSE)

internal_node_insert_late_check(p, parent_page_num, child_page_num) ==
    internal_node_insert_slip(p, parent_page_num, child_page_num, FALSE, TRUE)

\* the result: the pager the call leaves, and whether it ended in
\* exit(EXIT_FAILURE)
internal_node_insert(p, parent_page_num, child_page_num) ==
    LET parent == node_at(p, parent_page_num)
        child == node_at(p, child_page_num)
        child_max_key == get_node_max_key(p, child)
        index == internal_node_find_child(parent, child_max_key)
        original_num_keys == internal_node_num_keys(parent)
        counted == [parent EXCEPT !.num = original_num_keys + 1]
    IN  IF original_num_keys >= INTERNAL_NODE_MAX_CELLS
        THEN [pager |-> set_page(p, parent_page_num, counted), fatal |-> TRUE]
        ELSE LET right_child_page_num == internal_node_right_child(counted)
                 right_child == node_at(p, right_child_page_num)
                 right_max == get_node_max_key(p, right_child)
             IN  IF child_max_key > right_max
                 THEN [pager |-> set_page(p, parent_page_num,
                            [counted EXCEPT
                                !.icells[original_num_keys] =
                                    [child |-> right_child_page_num, key |-> right_max],
                                !.ref = child_page_num]),
                       fatal |-> FALSE]
                 ELSE [pager |-> set_page(p, parent_page_num,
                            [internal_shift_cells(counted, original_num_keys, index) EXCEPT
                                !.icells[index] =
                                    [child |-> child_page_num, key |-> child_max_key]]),
                       fatal |-> FALSE]

(***************************************************************************)
(* The operations of the engine as actions.                                *)
(***************************************************************************)
Init ==
    /\ status = "new"
    /\ pages = <<>>
    /\ num_pages = 0
    /\ file = <<>>
    /\ flushes = <<>>
    /\ root_page_num = 0
    /\ call = NoCall
    /\ cursor = NoCursor
    /\ inserted = {}

\* pager_open on the file, then db_open's initialisation of a new file
db_open ==
    /\ status = "new"
    /\ LET opened == [pages |-> <<>>, num_pages |-> Len(file)]
           p1 == get_page(opened, 0)
           p2 == set_page(p1, 0, set_node_root(initialize_leaf_node(p1.pages[0]), TRUE))
           p == IF opened.num_pages = 0 THEN p2 ELSE opened
       IN  /\ pages' = p.pages
           /\ num_pages' = p.num_pages
    /\ root_page_num' = 0
    /\ flushes' = [n \in {} |-> 0]
    /\ status' = "open"
    /\ UNCHANGED <<file, call, cursor, inserted>>

\* the key is in the table: the caller's test on the cursor of table_find
key_present(p, key) ==
    LET c == table_find(p, key, FALSE)
        node == node_at(p, c.page_num)
    IN  /\ c.cell_num < leaf_node_num_cells(node)
        /\ leaf_node_key(node, c.cell_num) = key

\* insert of a key the table does not hold, at the cursor of table_find(key)
Insert(key) ==
    /\ status = "open"
    /\ call = NoCall
    /\ ~key_present(Pager, key)
    /\ LET c == table_find(Pager, key, FALSE)
           r == leaf_node_insert(Pager, c, key, RowOf(key))
       IN  /\ pages' = r.pager.pages
           /\ num_pages' = r.pager.num_pages
           /\ call' = IF r.calls THEN r.call ELSE NoCall
    /\ cursor' = NoCursor
    /\ inserted' = inserted \cup {key}
    /\ UNCHANGED <<status, file, flushes, root_page_num>>

\* the cells the leaves count, over all leaf pages
TotalCells ==
    Cardinality({x \in (DOMAIN pages) \X (0..(LEAF_NODE_MAX_CELLS - 1)) :
        /\ get_node_type(pages[x[1]]) = NODE_LEAF
        /\ x[2] < leaf_node_num_cells(pages[x[1]])})

\* insert of a key the table holds already, by a caller that does not test
\* for it, at the cursor of table_find(key)
InsertPresent(key) ==
    /\ status = "open"
    /\ call = NoCall
    /\ key_present(Pager, key)
    /\ TotalCells - Cardinality(inserted) < MaxDuplicates
    /\ LET c == table_find(Pager, key, FALSE)
           r == leaf_node_insert(Pager, c, key, UpdatedRowOf(key))
       IN  /\ pages' = r.pager.pages
           /\ num_pages' = r.pager.num_pages
           /\ call' = IF r.calls THEN r.call ELSE NoCall
    /\ cursor' = NoCursor
    /\ UNCHANGED <<status, file, flushes, root_page_num, inserted>>

\* the call of internal_node_insert a non-root leaf split ends with
InternalNodeInsert ==
    /\ status = "open"
    /\ call # NoCall
    /\ LET r == internal_node_insert(Pager, call.parent_page_num, call.child_page_num)
       IN  /\ pages' = r.pager.pages
           /\ num_pages' = r.pager.num_pages
           /\ status' = IF r.fatal THEN "fatal" ELSE "open"
    /\ call' = NoCall
    /\ UNCHANGED <<file, flushes, root_page_num, cursor, inserted>>

\* pager_flush(n): the cached page n written at its offset in the file
pager_flush(f, p, n) ==
    LET len == IF Len(f) > n + 1 THEN Len(f) ELSE n + 1
    IN  [i \in 1..len |-> IF i = n + 1 THEN p.pages[n]
                          ELSE IF i <= Len(f) THEN f[i] ELSE ZeroPage]

\* the loop of db_close stopping one page early
RECURSIVE close_flush_loop_short(_, _)
close_flush_loop_short(st, i) ==
    IF i >= num_pages - 1
    THEN st
    ELSE IF i \notin DOMAIN st.pages
         THEN close_flush_loop_short(st, i + 1)
         ELSE close_flush_loop_short(
                [file |-> pager_flush(st.file, st, i),
                 pages |-> [n \in DOMAIN st.pages \ {i} |-> st.pages[n]],
                 flushes |-> [n \in DOMAIN st.flushes \cup {i} |->
                                IF n = i
                                THEN (IF i \in DOMAIN st.flushes THEN st.flushes[i] ELSE 0) + 1
                                ELSE st.flushes[n]]],
                i + 1)

\* the first loop of db_close from page i on; st is [file, pages, flushes]
RECURSIVE close_flush_loop(_, _)
close_flush_loop(st, i) ==
    IF i >= num_pages
    THEN st
    ELSE IF i \notin DOMAIN st.pages
         THEN close_flush_loop(st, i + 1)
         ELSE close_flush_loop(
                [file |-> pager_flush(st.file, st, i),
                 pages |-> [n \in DOMAIN st.pages \ {i} |-> st.pages[n]],
                 flushes |-> [n \in DOMAIN st.flushes \cup {i} |->
                                IF n = i
                                THEN (IF i \in DOMAIN st.flushes THEN st.flushes[i] ELSE 0) + 1
                                ELSE st.flushes[n]]],
                i + 1)

db_close ==
    /\ status = "open"
    /\ call = NoCall
    /\ LET flushed == close_flush_loop([file |-> file, pages |-> pages, flushes |-> flushes], 0)
           \* the second loop frees what is left in pages[0 .. TABLE_MAX_PAGES - 1]
           freed == [n \in {m \in DOMAIN flushed.pages : m >= TABLE_MAX_PAGES} |->
                        flushed.pages[n]]
       IN  /\ file' = flushed.file
           /\ flushes' = flushed.flushes
           /\ pages' = freed
    /\ status' = "closed"
    /\ cursor' = NoCursor
    /\ UNCHANGED <<num_pages, root_page_num, call, inserted>>

\* the cursor operations, one call each
TableFind(key) ==
    /\ status = "open"
    /\ call = NoCall
    /\ \E eot \in BOOLEAN : cursor' = table_find(Pager, key, eot)
    /\ UNCHANGED <<status, pages, num_pages, file, flushes, root_page_num, call, inserted>>

TableStart ==
    /\ status = "open"
    /\ call = NoCall
    /\ \E eot \in BOOLEAN : cursor' = table_start(Pager, eot)
    /\ UNCHANGED <<status, pages, num_pages, file, flushes, root_page_num, call, inserted>>

CursorAdvance ==
    /\ status = "open"
    /\ call = NoCall
    /\ cursor.valid
    /\ ~cursor.end_of_table
    /\ cursor' = cursor_advance(Pager, cursor)
    /\ UNCHANGED <<status, pages, num_pages, file, flushes, root_page_num, call, inserted>>

Next ==
    \/ db_open
    \/ \E key \in Keys : Insert(key)
    \/ InternalNodeInsert
    \/ db_close

Spec == Init /\ [][Next]_vars

\* the same engine with the cursor operations, over fewer keys
NextCursor ==
    \/ db_open
    \/ \E key \in CursorKeys : Insert(key)
    \/ InternalNodeInsert
    \/ db_close
    \/ \E key \in CursorKeys : TableFind(key)
    \/ TableStart
    \/ CursorAdvance

SpecCursor == Init /\ [][NextCursor]_vars

\* the same engine with a caller that also inserts keys the table holds
NextDup ==
    \/ db_open
    \/ \E key \in DupKeys : Insert(key)
    \/ \E key \in DupKeys : InsertPresent(key)
    \/ InternalNodeInsert
    \/ db_close

SpecDup == Init /\ [][NextDup]_vars

(***************************************************************************)
(* Vocabulary of the properties.                                           *)
(***************************************************************************)
\* an insert (or db_open) has returned and the engine is between calls
Returned == status = "open" /\ call = NoCall

SetMax(S) == CHOOSE x \in S : \A y \in S : y <= x

IsLeaf(n) == get_node_type(pages[n]) = NODE_LEAF

\* the keys of the cells a leaf counts as its own
LeafKeys(n) == {leaf_node_key(pages[n], i) : i \in 0..(leaf_node_num_cells(pages[n]) - 1)}

\* the pages an internal node lists: its keyed cells and its rightmost child
ChildPage(n, i) == internal_node_child(pages[n], i)
ChildPages(n) == {ChildPage(n, i) : i \in 0..internal_node_num_keys(pages[n])}

\* the keys below page n, looking at most d levels down
RECURSIVE SubtreeKeys(_, _)
SubtreeKeys(n, d) ==
    IF n \notin DOMAIN pages \/ d = 0
    THEN {}
    ELSE IF IsLeaf(n)
         THEN LeafKeys(n)
         ELSE UNION {SubtreeKeys(m, d - 1) : m \in ChildPages(n)}

TreeDepth == num_pages + 1

\* the leaf under the first child of every internal node from the root down
RECURSIVE LeftmostLeaf(_, _)
LeftmostLeaf(n, d) ==
    IF IsLeaf(n) \/ d = 0 THEN n ELSE LeftmostLeaf(ChildPage(n, 0), d - 1)

\* the keys a table_start / cursor_advance loop reads until end_of_table; a
\* loop still running after more steps than the pages have cells is cut, and
\* marked with -1
RECURSIVE scan_from(_, _, _)
scan_from(c, visited, fuel) ==
    IF c.end_of_table
    THEN visited
    ELSE IF fuel = 0
         THEN Append(visited, -1)
         ELSE scan_from(cursor_advance(Pager, c),
                        Append(visited, cursor_key(Pager, c)), fuel - 1)

ScanKeys == scan_from(table_start(Pager, TRUE), <<>>, num_pages * LEAF_NODE_MAX_CELLS + 1)

\* the leaves in next-leaf order from the leftmost one, at most fuel of them
RECURSIVE leaf_chain(_, _)
leaf_chain(n, fuel) ==
    IF fuel = 0
    THEN <<>>
    ELSE IF leaf_node_next_leaf(pages[n]) = 0
         THEN <<n>>
         ELSE <<n>> \o leaf_chain(leaf_node_next_leaf(pages[n]), fuel - 1)

LeafChain == leaf_chain(LeftmostLeaf(root_page_num, TreeDepth), num_pages)

(***************************************************************************)
(* C1: after inserts of N unique keys in any order that all returned, the  *)
(* loop from table_start with cursor_advance until end_of_table visits     *)
(* exactly N cells, with strictly increasing keys, which are exactly the   *)
(* inserted keys.                                                          *)
(***************************************************************************)
C1_AscendingTraversal ==
    Returned =>
        LET s == ScanKeys
        IN  /\ Len(s) = Cardinality(inserted)
            /\ \A i \in 1..(Len(s) - 1) : s[i] < s[i + 1]
            /\ {s[i] : i \in 1..Len(s)} = inserted

\* a traversal that crosses four leaves
C1_Witness ==
    /\ Returned
    /\ Len(LeafChain) = INTERNAL_NODE_MAX_CELLS + 1
    /\ Len(ScanKeys) > 2 * LEAF_NODE_MAX_CELLS

(***************************************************************************)
(* C2: in a tree built by inserts of unique keys, table_find(k) lands on   *)
(* the cell holding k when k is present, and otherwise on the sorted       *)
(* insertion position: every key before it in its leaf and in the earlier  *)
(* leaves is < k, every key at or after it and in the later leaves is > k. *)
(***************************************************************************)
FindBrackets(k) ==
    LET c == table_find(Pager, k, FALSE)
        chain == LeafChain
        node == pages[c.page_num]
    IN  /\ \E j \in 1..Len(chain) :
            /\ chain[j] = c.page_num
            /\ \A e \in 1..(j - 1) : \A x \in LeafKeys(chain[e]) : x < k
            /\ \A l \in (j + 1)..Len(chain) : \A x \in LeafKeys(chain[l]) : x > k
        /\ c.cell_num <= leaf_node_num_cells(node)
        /\ \A i \in 0..(leaf_node_num_cells(node) - 1) :
            IF i < c.cell_num THEN leaf_node_key(node, i) < k
                              ELSE leaf_node_key(node, i) > k

FindExact(k) ==
    LET c == table_find(Pager, k, FALSE)
        node == pages[c.page_num]
    IN  /\ IsLeaf(c.page_num)
        /\ c.cell_num < leaf_node_num_cells(node)
        /\ leaf_node_key(node, c.cell_num) = k

C2_FindPosition ==
    Returned =>
        \A k \in Keys : IF k \in inserted THEN FindExact(k) ELSE FindBrackets(k)

\* an absent key whose position is in a middle leaf, between two keys
C2_Witness ==
    /\ Returned
    /\ \E k \in Keys \ inserted :
        LET c == table_find(Pager, k, FALSE)
        IN  /\ Len(LeafChain) >= 3
            /\ c.page_num # LeafChain[1]
            /\ c.page_num # LeafChain[Len(LeafChain)]
            /\ c.cell_num > 0
            /\ c.cell_num < leaf_node_num_cells(pages[c.page_num])

(***************************************************************************)
(* C3: the insert that forces the first split (any position, into a root   *)
(* leaf holding LEAF_NODE_MAX_CELLS keys) leaves page 0 an internal node   *)
(* with key count 1 whose separator is the left child's maximum key, with  *)
(* exactly two leaf children whose key sets together are the inserted keys.*)
(***************************************************************************)
RootAfterFirstSplit ==
    LET root == pages[0]
        left == ChildPage(0, 0)
        right == ChildPage(0, 1)
    IN  /\ get_node_type(root) = NODE_INTERNAL
        /\ internal_node_num_keys(root) = 1
        /\ ChildPages(0) = {left, right}
        /\ left # right
        /\ left \in DOMAIN pages /\ right \in DOMAIN pages
        /\ IsLeaf(left) /\ IsLeaf(right)
        /\ LeafKeys(left) # {}
        /\ internal_node_key(root, 0) = SetMax(LeafKeys(left))
        /\ LeafKeys(left) \cup LeafKeys(right) = inserted
        /\ Cardinality(LeafKeys(left)) + Cardinality(LeafKeys(right)) = Cardinality(inserted)

FirstSplitStep ==
    /\ Returned
    /\ IsLeaf(0)
    /\ leaf_node_num_cells(pages[0]) = LEAF_NODE_MAX_CELLS
    /\ inserted' # inserted

C3_RootGrowth == [][FirstSplitStep => RootAfterFirstSplit']_vars

\* the state the first split leaves: the new key went to the left leaf
C3_Witness ==
    /\ Returned
    /\ num_pages = 3
    /\ Cardinality(inserted) = LEAF_NODE_MAX_CELLS + 1
    /\ RootAfterFirstSplit

InternalPages == {n \in DOMAIN pages : ~IsLeaf(n)}
LeafPages == {n \in DOMAIN pages : IsLeaf(n)}

LeafSorted(n) ==
    \A i \in 0..(leaf_node_num_cells(pages[n]) - 2) :
        leaf_node_key(pages[n], i) < leaf_node_key(pages[n], i + 1)

\* child i's keys <= separator i < child i + 1's keys; the rightmost child's
\* keys > every separator
SeparatorInvariant(n) ==
    LET num_keys == internal_node_num_keys(pages[n])
    IN  /\ \A i \in 0..(num_keys - 1) :
            /\ \A x \in SubtreeKeys(ChildPage(n, i), TreeDepth) :
                x <= internal_node_key(pages[n], i)
            /\ \A x \in SubtreeKeys(ChildPage(n, i + 1), TreeDepth) :
                internal_node_key(pages[n], i) < x
        /\ \A x \in SubtreeKeys(ChildPage(n, num_keys), TreeDepth) :
            \A i \in 0..(num_keys - 1) : x > internal_node_key(pages[n], i)

\* no key lost, none twice, every node in order
TreeIntact ==
    /\ SubtreeKeys(root_page_num, TreeDepth) = inserted
    /\ \A n \in LeafPages : LeafSorted(n)
    /\ \A n \in InternalPages : SeparatorInvariant(n)
    /\ LET s == ScanKeys
       IN  /\ Len(s) = Cardinality(inserted)
           /\ {s[i] : i \in 1..Len(s)} = inserted

(***************************************************************************)
(* C5: an insert whose leaf split finds the parent already holding         *)
(* INTERNAL_NODE_MAX_CELLS keys always ends in the fatal error and never   *)
(* returns, so no insert returns leaving a tree that lost a key or breaks  *)
(* the key ordering.                                                       *)
(***************************************************************************)
ParentFull ==
    /\ status = "open"
    /\ call # NoCall
    /\ internal_node_num_keys(pages[call.parent_page_num]) >= INTERNAL_NODE_MAX_CELLS

C5_CapacityFatal ==
    /\ [][ParentFull => status' = "fatal"]_vars
    /\ [](Returned => TreeIntact)

\* the fatal error raised with every leaf a full parent can list in place
C5_Witness ==
    /\ status = "fatal"
    /\ Cardinality(LeafPages) = INTERNAL_NODE_MAX_CELLS + 2
    /\ Cardinality(DOMAIN pages) = num_pages

EmptyRootLeaf ==
    /\ 0 \in DOMAIN pages
    /\ get_node_type(pages[0]) = NODE_LEAF
    /\ is_node_root(pages[0])
    /\ leaf_node_num_cells(pages[0]) = 0
    /\ num_pages = 1

StartAtLeftmost ==
    \A eot \in BOOLEAN :
        LET c == table_start(Pager, eot)
        IN  /\ c.page_num = LeftmostLeaf(root_page_num, TreeDepth)
            /\ IsLeaf(c.page_num)
            /\ c.cell_num = 0
            /\ c.end_of_table <=> (inserted = {})

C7_OpenAndStart ==
    /\ [][(status = "new" /\ Len(file) = 0 /\ status' = "open") => EmptyRootLeaf']_vars
    /\ [](Returned => StartAtLeftmost)

\* table_start under an internal root whose first child is not page 1
C7_Witness ==
    /\ Returned
    /\ ~IsLeaf(root_page_num)
    /\ table_start(Pager, TRUE).page_num = ChildPage(root_page_num, 0)
    /\ table_start(Pager, TRUE).page_num > 1
    /\ ~table_start(Pager, TRUE).end_of_table

(***************************************************************************)
(* C8: after every insert that returns, every internal node keeps the      *)
(* separator invariant: max key of child i <= separator i < every key of   *)
(* child i + 1, and the rightmost child's keys exceed every separator.     *)
(***************************************************************************)
C8_SeparatorInvariant ==
    Returned => \A n \in InternalPages : SeparatorInvariant(n)

\* a root of three separators, one of them placed by shifting cells
C8_Witness ==
    /\ Returned
    /\ ~IsLeaf(root_page_num)
    /\ internal_node_num_keys(pages[root_page_num]) = INTERNAL_NODE_MAX_CELLS
    /\ SeparatorInvariant(root_page_num)
    /\ \E i \in 0..(INTERNAL_NODE_MAX_CELLS - 2) :
           ChildPage(root_page_num, i) > ChildPage(root_page_num, i + 1)

(***************************************************************************)
(* C9: internal_node_insert checks the key count before it mutates the     *)
(* parent: when it fails fatally, the parent's key count and cells are     *)
(* those it was entered with.                                              *)
(***************************************************************************)
C9_CheckBeforeMutate ==
    [][(status = "open" /\ call # NoCall /\ status' = "fatal") =>
        /\ internal_node_num_keys(pages'[call.parent_page_num])
             = internal_node_num_keys(pages[call.parent_page_num])
        /\ pages'[call.parent_page_num].icells = pages[call.parent_page_num].icells]_vars

(***************************************************************************)
(* C10: in every reachable state, the state of the fatal capacity error    *)
(* included, every leaf's cell count is <= LEAF_NODE_MAX_CELLS and every   *)
(* internal node's key count is <= INTERNAL_NODE_MAX_CELLS.                *)
(***************************************************************************)
C10_CountsWithinMax ==
    /\ \A n \in LeafPages : leaf_node_num_cells(pages[n]) <= LEAF_NODE_MAX_CELLS
    /\ \A n \in InternalPages : internal_node_num_keys(pages[n]) <= INTERNAL_NODE_MAX_CELLS

(***************************************************************************)
(* C11: a split happens exactly when leaf_node_insert targets a leaf that  *)
(* holds LEAF_NODE_MAX_CELLS cells; at every insertion position the old    *)
(* leaf ends with the LEFT_SPLIT_COUNT smallest of the MAX_CELLS + 1       *)
(* merged keys in ascending order, the new leaf with the remaining         *)
(* RIGHT_SPLIT_COUNT in ascending order, old.next_leaf is the new page and *)
(* the new leaf's next_leaf is the old leaf's previous next_leaf.          *)
(***************************************************************************)
\* the keys of a node's first n cells, as a sequence
CellKeys(node, n) == [i \in 1..n |-> leaf_node_key(node, i - 1)]

\* the number of keys of S below x: x's place in the ascending order of S
Rank(S, x) == Cardinality({y \in S : y < x})

\* seq lists in ascending order the keys of S ranked from..(from + Len(seq) - 1)
HoldsRanks(seq, S, from) ==
    \A i \in 1..Len(seq) : seq[i] \in S /\ Rank(S, seq[i]) = from + i - 1

SplitOutcome(k) ==
    LET c == table_find(Pager, k, FALSE)
        target == pages[c.page_num]
        merged == LeafKeys(c.page_num) \cup {k}
        was_root == is_node_root(target)
        old_page == IF was_root THEN num_pages + 1 ELSE c.page_num
        new_page == num_pages
        split == num_pages' > num_pages
    IN  /\ split <=> (leaf_node_num_cells(target) = LEAF_NODE_MAX_CELLS)
        /\ split =>
            /\ c.cell_num \in 0..LEAF_NODE_MAX_CELLS
            /\ old_page \in DOMAIN pages' /\ new_page \in DOMAIN pages'
            /\ get_node_type(pages'[old_page]) = NODE_LEAF
            /\ get_node_type(pages'[new_page]) = NODE_LEAF
            /\ leaf_node_num_cells(pages'[old_page]) = LEAF_NODE_LEFT_SPLIT_COUNT
            /\ leaf_node_num_cells(pages'[new_page]) = LEAF_NODE_RIGHT_SPLIT_COUNT
            /\ HoldsRanks(CellKeys(pages'[old_page], LEAF_NODE_LEFT_SPLIT_COUNT), merged, 0)
            /\ HoldsRanks(CellKeys(pages'[new_page], LEAF_NODE_RIGHT_SPLIT_COUNT), merged,
                          LEAF_NODE_LEFT_SPLIT_COUNT)
            /\ leaf_node_next_leaf(pages'[old_page]) = new_page
            /\ leaf_node_next_leaf(pages'[new_page]) = leaf_node_next_leaf(target)

C11_SplitDistribution ==
    [][Returned => \A k \in Keys : (k \in inserted' \ inserted) => SplitOutcome(k)]_vars

\* a split of a leaf that had a next leaf, before its parent is updated
C11_Witness ==
    /\ status = "open"
    /\ call # NoCall
    /\ leaf_node_num_cells(pages[call.child_page_num]) = LEAF_NODE_RIGHT_SPLIT_COUNT
    /\ leaf_node_next_leaf(pages[call.child_page_num]) # 0
    /\ \E n \in LeafPages :
        /\ leaf_node_next_leaf(pages[n]) = call.child_page_num
        /\ leaf_node_num_cells(pages[n]) = LEAF_NODE_LEFT_SPLIT_COUNT

(***************************************************************************)
(* C12: leaf_node_insert rejects no duplicate; called with the cursor of   *)
(* table_find(k) for a key k the table holds, it replaces the row stored   *)
(* under k and leaves the leaf's cell count unchanged, so the table never  *)
(* holds two cells with the same key.                                      *)
(***************************************************************************)
\* the cells of key k, as (page, cell) pairs
CellsOf(k) ==
    {x \in (DOMAIN pages) \X (0..(LEAF_NODE_MAX_CELLS - 1)) :
        /\ get_node_type(pages[x[1]]) = NODE_LEAF
        /\ x[2] < leaf_node_num_cells(pages[x[1]])
        /\ leaf_node_key(pages[x[1]], x[2]) = k}

\* the rows stored under key k
RowsOf(k) == {leaf_node_value(pages[x[1]], x[2]) : x \in CellsOf(k)}

C12_Overwrite ==
    [][\A k \in DupKeys : InsertPresent(k) =>
        /\ TotalCells' = TotalCells
        /\ RowsOf(k)' = {UpdatedRowOf(k)}
        /\ \A j \in DupKeys : Cardinality(CellsOf(j)') <= 1]_vars

\* as amended: the insert adds a second cell with key k and the new row, and
\* keeps the cell and the row the table held
C12_SecondCell ==
    [][\A k \in DupKeys : InsertPresent(k) =>
        /\ TotalCells' = TotalCells + 1
        /\ Cardinality(CellsOf(k)') = Cardinality(CellsOf(k)) + 1
        /\ RowsOf(k)' = RowsOf(k) \cup {UpdatedRowOf(k)}
        /\ \A j \in DupKeys \ {k} :
            Cardinality(CellsOf(j)') = Cardinality(CellsOf(j))]_vars

\* a table with two cells of one key, in two leaves
C12_Witness ==
    /\ Returned
    /\ \E k \in DupKeys :
        /\ RowsOf(k) = {RowOf(k), UpdatedRowOf(k)}
        /\ \E x, y \in CellsOf(k) : x[1] # y[1]

(***************************************************************************)
(* C13: every cursor table_find returns, for a present or an absent key,   *)
(* through a leaf root or an internal root, has end_of_table = FALSE.      *)
(***************************************************************************)
C13_FindNotAtEnd ==
    [][\A k \in CursorKeys : TableFind(k) => ~cursor'.end_of_table]_vars

(***************************************************************************)
(* C14: every call of update_internal_node_key made by a non-root leaf     *)
(* split, a split of the parent's rightmost child included, overwrites a   *)
(* separator at an index below the parent's key count whose value was      *)
(* old_key, the split leaf's maximum before the split; it writes no key    *)
(* slot at an index >= the key count and changes no other separator.       *)
(***************************************************************************)
\* the parent differs from what it was in the key of cell i at most
OnlyKeyChanged(before, after, i) ==
    /\ after.icells[i].child = before.icells[i].child
    /\ \A j \in 0..INTERNAL_NODE_MAX_CELLS : j # i => after.icells[j] = before.icells[j]

SeparatorOverwritten(k) ==
    LET leaf == pages[table_find(Pager, k, FALSE).page_num]
        old_key == leaf_node_key(leaf, leaf_node_num_cells(leaf) - 1)
        before == pages[call'.parent_page_num]
        after == pages'[call'.parent_page_num]
    IN  \E i \in 0..(internal_node_num_keys(before) - 1) :
            /\ internal_node_key(before, i) = old_key
            /\ OnlyKeyChanged(before, after, i)

C14_UpdatesSeparator ==
    [][\A k \in Keys : (Insert(k) /\ call' # NoCall) => SeparatorOverwritten(k)]_vars

(***************************************************************************)
(* C15: in every tree inserts reach exactly one node is marked root, the   *)
(* node on page 0, and root_page_num stays 0; page 0 turns from leaf to    *)
(* internal only in the first split; the copy of the old root that         *)
(* create_new_root makes has its root flag cleared, and no page a split    *)
(* brings into use is marked root.                                         *)
(***************************************************************************)
RootPages == {n \in DOMAIN pages : is_node_root(pages[n])}

Live == status \in {"open", "fatal"}

\* a step of the open engine that is not db_close
EngineStep == status = "open" /\ status' # "closed"

RootTypeChanged == get_node_type(pages'[0]) # get_node_type(pages[0])

\* the left child of the new root is the old root, root flag off
OldRootCopied ==
    LET left_page == internal_node_child(pages'[0], 0)
    IN  /\ left_page \in DOMAIN pages' \ DOMAIN pages
        /\ ~is_node_root(pages'[left_page])
        /\ get_node_type(pages'[left_page]) = NODE_LEAF
        /\ leaf_node_next_leaf(pages'[left_page]) = internal_node_right_child(pages'[0])
        /\ \A i \in 0..(LEAF_NODE_LEFT_SPLIT_COUNT - 1) :
            leaf_node_key(pages'[left_page], i) \in inserted'

C15_SingleRoot ==
    /\ [](Live => root_page_num = 0 /\ RootPages = {0})
    /\ [][EngineStep =>
            /\ RootTypeChanged =>
                /\ FirstSplitStep
                /\ get_node_type(pages'[0]) = NODE_INTERNAL
                /\ OldRootCopied
            /\ FirstSplitStep => RootTypeChanged
            /\ \A n \in DOMAIN pages' \ DOMAIN pages : ~is_node_root(pages'[n])]_vars

\* after the first split and a later split of a non-root leaf
C15_Witness ==
    /\ Returned
    /\ get_node_type(pages[0]) = NODE_INTERNAL
    /\ is_node_root(pages[0])
    /\ num_pages >= 4
    /\ \A n \in 1..(num_pages - 1) : IsLeaf(n) /\ ~is_node_root(pages[n])

(***************************************************************************)
(* C16: page allocation is monotonic and reuses no page: the page count    *)
(* never decreases, an insert brings into use exactly the pages numbered   *)
(* from the old page count up (one for a split of a non-root leaf, two for *)
(* the split of the root, none otherwise), never page 0 and never a page   *)
(* that holds a node, and the pages in use are always 0 .. count - 1.      *)
(***************************************************************************)
\* the leaf Insert(k) goes to is full
SplitsLeaf(k) ==
    leaf_node_num_cells(pages[table_find(Pager, k, FALSE).page_num]) >= LEAF_NODE_MAX_CELLS

\* the pages a step brings into use
NewPages == DOMAIN pages' \ DOMAIN pages

AllocatedBy(k) ==
    IF ~SplitsLeaf(k)
    THEN NewPages = {}
    ELSE IF IsLeaf(0)
         THEN /\ NewPages = {num_pages, num_pages + 1}
              /\ internal_node_right_child(pages'[0]) = num_pages
              /\ internal_node_child(pages'[0], 0) = num_pages + 1
         ELSE /\ NewPages = {num_pages}
              /\ call'.child_page_num = num_pages

C16_MonotonicAllocation ==
    /\ [][num_pages' >= num_pages]_vars
    /\ [][EngineStep =>
            /\ DOMAIN pages \subseteq DOMAIN pages'
            /\ NewPages = num_pages..(num_pages' - 1)
            /\ 0 \notin NewPages
            /\ DOMAIN pages' = 0..(num_pages' - 1)
            /\ \A k \in Keys : Insert(k) => AllocatedBy(k)
            /\ InternalNodeInsert => NewPages = {}]_vars

\* a root split and two later splits have allocated pages 1 .. 4
C16_Witness ==
    /\ status = "open"
    /\ call # NoCall
    /\ call.child_page_num = 4
    /\ num_pages = 5
    /\ DOMAIN pages = 0..4

(***************************************************************************)
(* C17: after any inserts of unique keys that return, for every inserted   *)
(* key k the cell table_find(k) finds holds k and cursor_value reads from  *)
(* it the row inserted with k.                                             *)
(***************************************************************************)
FindsOwnRow(k) ==
    LET c == table_find(Pager, k, FALSE)
    IN  /\ c.cell_num < leaf_node_num_cells(pages[c.page_num])
        /\ cursor_key(Pager, c) = k
        /\ cursor_value(Pager, c) = RowOf(k)

C17_FindReturnsOwnRow == Returned => \A k \in inserted : FindsOwnRow(k)

\* every key inserted, in a tree that has as many leaves as a root can list
C17_Witness ==
    /\ Returned
    /\ Cardinality(LeafPages) = INTERNAL_NODE_MAX_CELLS + 1
    /\ Cardinality(inserted) = MaxKey + 1

(***************************************************************************)
(* C18: after every insert that returns, every non-root node is listed as  *)
(* a child (keyed or rightmost) exactly once, by the internal node its     *)
(* parent reference names, and every listed child is a non-root page.      *)
(***************************************************************************)
\* the places (internal page, child index) that list page n
Listings(n) ==
    {x \in InternalPages \X (0..(INTERNAL_NODE_MAX_CELLS + 1)) :
        /\ x[2] <= internal_node_num_keys(pages[x[1]])
        /\ internal_node_child(pages[x[1]], x[2]) = n}

C18_ParentsAndChildren ==
    Returned =>
        /\ \A n \in DOMAIN pages \ {root_page_num} :
            /\ Cardinality(Listings(n)) = 1
            /\ \A x \in Listings(n) : node_parent(pages[n]) = x[1]
        /\ Listings(root_page_num) = {}
        /\ \A m \in InternalPages : \A i \in 0..internal_node_num_keys(pages[m]) :
            internal_node_child(pages[m], i) \in DOMAIN pages

\* a root with three children, the newest listed in a keyed cell
C18_Witness ==
    /\ Returned
    /\ ~IsLeaf(0)
    /\ internal_node_num_keys(pages[0]) = 2
    /\ internal_node_right_child(pages[0]) # num_pages - 1
    /\ Cardinality(Listings(num_pages - 1)) = 1

(***************************************************************************)
(* C19: the tree has at most two levels: in every reachable state page 0   *)
(* is the only internal node and every child of the root is a leaf, and    *)
(* in a state from which an insert has returned the leaves number at most  *)
(* INTERNAL_NODE_MAX_CELLS + 1.                                            *)
(***************************************************************************)
RootChildrenAreLeaves ==
    ~IsLeaf(0) =>
        \A i \in 0..internal_node_num_keys(pages[0]) :
            internal_node_child(pages[0], i) \in LeafPages

C19_TwoLevels ==
    /\ Live => InternalPages \subseteq {0} /\ RootChildrenAreLeaves
    /\ Returned => Cardinality(LeafPages) <= INTERNAL_NODE_MAX_CELLS + 1

====
